---- MODULE Spec2Model ----
(***************************************************************************)
(* Model of the Indian stock screener: the fetch-stock-data batch          *)
(* (src/mastra/tools/fetchStockData.ts), the CSV generator                 *)
(* (src/mastra/tools/generateStockCSV.ts), the email tool                  *)
(* (src/mastra/tools/sendStockEmail.ts) and the workflow steps that chain  *)
(* them (src/mastra/workflows/stockAnalysisWorkflow.ts).                   *)
(*                                                                         *)
(* Numbers: a JavaScript number is modelled as an exact rational <<n, d>>  *)
(* with d > 0 in lowest terms, or NaN.  null is Null, an array hole        *)
(* (undefined) is Hole.  A slot that holds null or an object holds Null or *)
(* Obj(o), and The(v) is the object.                                       *)
(* Strings: a string is a sequence of chunks; the characters the code      *)
(* looks at or inserts (".", ",", "\"", "\n", "_", "T") are chunks of      *)
(* their own wherever they matter.                                         *)
(* Arrays: a JavaScript array is a sequence; JS index i is position i+1.   *)
(***************************************************************************)
EXTENDS Integers, Sequences, FiniteSets, TLC

VARIABLES
    symbols,         \* execute: context.symbols
    idx,             \* execute: position of the for-of loop (1-based)
    pc,              \* execute: where the async function is suspended
    stockData,       \* execute: const stockData of the current iteration
    stocksWithEMA,   \* execute: the accumulator array
    processedCount,  \* execute: let processedCount
    report,          \* execute: the returned object, Null before the return
    now,             \* milliseconds elapsed on the timer clock
    calls,           \* log of the provider calls made so far
    csvOut,          \* generateStockCSVTool.execute: the returned object
    emaIn,           \* calculateEMA: arguments [prices, period]
    emaOut,          \* calculateEMA: returned array
    startedAt,       \* the wall clock (UTC) when the run started: [day, ms]
    mail,            \* the sendEmail call: [message, outcome], Null before
    emailOut,        \* sendStockEmailTool.execute: the returned object
    sendOut          \* sendEmailStep.execute: the returned object

vars == <<symbols, idx, pc, stockData, stocksWithEMA, processedCount, report,
          now, calls, csvOut, emaIn, emaOut, startedAt, mail, emailOut, sendOut>>

Null == <<>>
Hole == <<"undefined">>
NaN  == <<0, 0>>
Obj(o) == <<o>>
The(v) == v[1]

(***************************************************************************)
(* Bounds of the model.                                                    *)
(***************************************************************************)
MaxSymbols == 2     \* longest symbol list given to the batch
MaxPrices  == 4     \* longest price series given to calculateEMA on its own
MaxPeriod  == 3     \* largest period given to calculateEMA on its own
MaxRecords == 2     \* longest record list given to generateCSV on its own

(***************************************************************************)
(* Program constants.                                                      *)
(***************************************************************************)
EmaPeriod        == 50    \* calculateEMA(historicalPrices, 50)
MinHistoryLength == 50    \* if (historicalPrices.length < 50)
RateLimitDelayMs == 200   \* setTimeout(resolve, 200)

(***************************************************************************)
(* JavaScript number arithmetic on exact rationals.                        *)
(***************************************************************************)
Abs(x) == IF x < 0 THEN -x ELSE x
Min(a, b) == IF a < b THEN a ELSE b

RECURSIVE GCD(_, _)
GCD(a, b) == IF b = 0 THEN a ELSE GCD(b, a % b)

Norm(n, d) ==
    LET g == GCD(Abs(n), Abs(d))
        s == IF d < 0 THEN -1 ELSE 1
    IN  <<s * (n \div g), s * (d \div g)>>

R(i) == <<i, 1>>
\* a finite number: not NaN, null or undefined
IsNum(a) == Len(a) = 2 /\ a[2] # 0
\* ToNumber: null is 0, undefined is NaN
Num(v) == IF v = Null THEN R(0) ELSE IF IsNum(v) THEN v ELSE NaN
RAddN(a, b) == Norm(a[1] * b[2] + b[1] * a[2], a[2] * b[2])
RSubN(a, b) == Norm(a[1] * b[2] - b[1] * a[2], a[2] * b[2])
RMulN(a, b) == Norm(a[1] * b[1], a[2] * b[2])
RDivN(a, b) == IF b[1] = 0 THEN NaN ELSE Norm(a[1] * b[2], a[2] * b[1])
\* a + b, a - b, a * b, a / b: NaN as soon as an operand is NaN
RAdd(a, b) == IF IsNum(Num(a)) /\ IsNum(Num(b)) THEN RAddN(Num(a), Num(b)) ELSE NaN
RSub(a, b) == IF IsNum(Num(a)) /\ IsNum(Num(b)) THEN RSubN(Num(a), Num(b)) ELSE NaN
RMul(a, b) == IF IsNum(Num(a)) /\ IsNum(Num(b)) THEN RMulN(Num(a), Num(b)) ELSE NaN
RDiv(a, b) == IF IsNum(Num(a)) /\ IsNum(Num(b)) THEN RDivN(Num(a), Num(b)) ELSE NaN
\* a < b and a > b on numbers; a comparison with NaN or undefined is false
RLt(a, b) == IsNum(a) /\ IsNum(b) /\ a[1] * b[2] < b[1] * a[2]
RGt(a, b) == RLt(b, a)
\* v || 0: null, undefined, NaN and 0 are falsy
OrZero(v) == IF IsNum(v) /\ v[1] # 0 THEN v ELSE R(0)

(***************************************************************************)
(* JavaScript arrays.                                                      *)
(***************************************************************************)
\* a[k] = v on a possibly sparse array: the length grows to k + 1 and the
\* positions in between are holes
ArraySet(a, k, v) ==
    IF k < Len(a)
    THEN [a EXCEPT ![k + 1] = v]
    ELSE a \o [j \in 1..(k - Len(a)) |-> Hole] \o <<v>>

\* k is an index of the array
HasIndex(a, k) == k >= 0 /\ k < Len(a)

\* a[k], undefined outside the array
ArrayGet(a, k) == IF HasIndex(a, k) THEN a[k + 1] ELSE Hole

(***************************************************************************)
(* calculateEMA(prices, period)                                            *)
(***************************************************************************)
\* mutant: the multiplier of a simple 2 / period weighting
MultiplierNoPlusOne(period) == RDiv(R(2), R(period))

\* const multiplier = 2 / (period + 1)
Multiplier(period) == RDiv(R(2), R(period + 1))

\* for (let i = 0; i < Math.min(period, prices.length); i++) sum += prices[i]
\* the loop's variables are st.i and st.sum
RECURSIVE SumLoop(_, _, _)
SumLoop(prices, period, st) ==
    IF st.i < Min(period, Len(prices))
    THEN SumLoop(prices, period,
                 [i |-> st.i + 1, sum |-> RAdd(st.sum, ArrayGet(prices, st.i))])
    ELSE st.sum

\* ema[period - 1] = sum / Math.min(period, prices.length)
SeedDivisor(prices, period) == Min(period, Len(prices))

\* ema[i] = (prices[i] - ema[i - 1]) * multiplier + ema[i - 1]
EmaStep(price, prev, multiplier) == RAdd(RMul(RSub(price, prev), multiplier), prev)

\* mutant: the recurrence starts one index late
EmaLoopStartLate(period) == period + 1

\* first index of the recurrence loop
EmaLoopStart(period) == period

\* for (let i = period; i < prices.length; i++) ema[i] = ...
\* the loop's variables are st.i and st.ema
RECURSIVE EmaLoop(_, _, _)
EmaLoop(prices, multiplier, st) ==
    IF st.i < Len(prices)
    THEN EmaLoop(prices, multiplier,
                 [i   |-> st.i + 1,
                  ema |-> ArraySet(st.ema, st.i,
                                   EmaStep(ArrayGet(prices, st.i),
                                           ArrayGet(st.ema, st.i - 1), multiplier))])
    ELSE st.ema

calculateEMA(prices, period) ==
    LET sum    == SumLoop(prices, period, [i |-> 0, sum |-> R(0)])
        seeded == ArraySet(<<>>, period - 1, RDiv(sum, R(SeedDivisor(prices, period))))
    IN  EmaLoop(prices, Multiplier(period), [i |-> EmaLoopStart(period), ema |-> seeded])

\* const currentEMA50 = emaValues[emaValues.length - 1]
CurrentEMA(emaValues) == ArrayGet(emaValues, Len(emaValues) - 1)

(***************************************************************************)
(* The wall clock.                                                         *)
(***************************************************************************)
\* the daily run is scheduled for 17:30 Asia/Kolkata, which is 12:00 UTC
ScheduledStart == [day |-> 20341, ms |-> 12 * 60 * 60 * 1000]

\* the instants at which a run can start: the scheduled one, the same time a
\* day later, and (a run triggered by hand) a tenth of a second before
\* midnight UTC
StartInstants ==
    { ScheduledStart,
      [day |-> 20342, ms |-> 12 * 60 * 60 * 1000],
      [day |-> 20341, ms |-> 24 * 60 * 60 * 1000 - 100] }

(***************************************************************************)
(* calculateEMA on its own: the arguments are drawn from bounded sets and  *)
(* the one action applies the function and reads the current EMA as the    *)
(* batch does.                                                             *)
(***************************************************************************)
PriceValues == {<<1, 1>>, <<4, 1>>, <<5, 2>>}

SeqsUpTo(S, n) == UNION {[1..k -> S] : k \in 0..n}

BatchIdle ==
    /\ symbols = <<>>
    /\ idx = 1
    /\ pc = "idle"
    /\ stockData = Null
    /\ stocksWithEMA = <<>>
    /\ processedCount = 0
    /\ report = Null
    /\ now = 0
    /\ calls = <<>>

InitEMA ==
    /\ BatchIdle
    /\ csvOut = Null
    /\ emaIn \in {Obj(a) : a \in [prices : SeqsUpTo(PriceValues, MaxPrices),
                                   period : 1..MaxPeriod]}
    /\ emaOut = Null
    /\ startedAt = ScheduledStart
    /\ mail = Null
    /\ emailOut = Null
    /\ sendOut = Null

CalculateEMA ==
    /\ emaIn # Null
    /\ emaOut = Null
    /\ LET emaValues == calculateEMA(The(emaIn).prices, The(emaIn).period)
       IN  emaOut' = Obj([emaValues |-> emaValues, currentEMA |-> CurrentEMA(emaValues)])
    /\ UNCHANGED <<symbols, idx, pc, stockData, stocksWithEMA, processedCount,
                   report, now, calls, csvOut, emaIn,
                   startedAt, mail, emailOut, sendOut>>

NextEMA == CalculateEMA

SpecEMA == InitEMA /\ [][NextEMA]_vars

(***************************************************************************)
(* Strings.                                                                *)
(***************************************************************************)
\* s.includes(pat)
Includes(s, pat) ==
    \E i \in 0..(Len(s) - Len(pat)) : \A j \in 1..Len(pat) : s[i + j] = pat[j]

\* a || b on strings: null and the empty string are falsy
OrElse(a, b) == IF a # Null THEN a ELSE b

\* parts.join(sep)
RECURSIVE Join(_, _)
Join(parts, sep) ==
    IF Len(parts) = 0 THEN <<>>
    ELSE IF Len(parts) = 1 THEN parts[1]
    ELSE parts[1] \o sep \o Join(Tail(parts), sep)

\* text.split(sep) for a one-chunk separator
RECURSIVE SplitOn(_, _)
SplitOn(text, sep) ==
    IF \A i \in 1..Len(text) : text[i] # sep THEN <<text>>
    ELSE LET first == CHOOSE i \in 1..Len(text) :
                         text[i] = sep /\ \A j \in 1..(i - 1) : text[j] # sep
         IN  <<SubSeq(text, 1, first - 1)>> \o
             SplitOn(SubSeq(text, first + 1, Len(text)), sep)

\* new Date(ms).toISOString().split('T')[0] for the days the model uses;
\* an invalid date throws RangeError (Hole here)
IsoDate(day) ==
    CASE day = 20340 -> <<"2025-09-09">>
      [] day = 20341 -> <<"2025-09-10">>
      [] day = 20342 -> <<"2025-09-11">>
      [] OTHER -> Hole

(***************************************************************************)
(* The data provider (Yahoo Finance chart endpoint): what one HTTP call    *)
(* can answer.  kind says how far the call gets:                           *)
(*   networkError  fetch() rejects                                         *)
(*   httpError     response.ok is false                                    *)
(*   invalidJson   response.json() rejects                                 *)
(*   noResult      data.chart.result is null (indexing it throws)          *)
(*   emptyResult   data.chart.result is [] (result[0] is undefined)        *)
(*   noQuote       result.indicators.quote is []                           *)
(*   ok            a chart with meta, quote arrays and timestamps          *)
(***************************************************************************)
FailureKinds ==
    {"networkError", "httpError", "invalidJson", "noResult", "emptyResult", "noQuote"}

NoMeta  == [longName |-> Null, shortName |-> Null]
NoQuote == [open |-> <<>>, high |-> <<>>, low |-> <<>>, close |-> <<>>, volume |-> <<>>]

Failure(kind) == [kind |-> kind, meta |-> NoMeta, quote |-> NoQuote, timestamp |-> <<>>]

\* a chart of two trading days: a complete earlier day, then the day given
Chart(meta, o, h, l, c, v) ==
    [kind |-> "ok", meta |-> meta,
     quote |-> [open |-> <<R(10), o>>, high |-> <<R(11), h>>, low |-> <<R(9), l>>,
                close |-> <<R(10), c>>, volume |-> <<R(900), v>>],
     timestamp |-> <<1757389500, 1757475900>>]

LatestBarResponses ==
    {Failure(k) : k \in FailureKinds} \cup
    { \* low 9 < 10 < close 11
      Chart([longName |-> <<"Tata Consultancy">>, shortName |-> <<"TCS">>],
            R(10), R(12), R(9), R(11), R(1000)),
      \* low exactly 10
      Chart([longName |-> Null, shortName |-> <<"Tata", ",", " Ltd">>],
            R(10), R(12), R(10), R(11), R(1000)),
      \* close exactly 10
      Chart(NoMeta, R(10), R(12), R(9), R(10), R(1000)),
      \* the last day is still open: only high and close are there
      Chart(NoMeta, Null, R(12), Null, R(11), Null),
      \* the last day has no values at all
      Chart(NoMeta, Null, Null, Null, Null, Null) }

\* n closing prices, all 10 but the last; one of them missing if gap > 0
Closes(n, last, gap) ==
    [i \in 1..n |-> IF i = gap THEN Null ELSE IF i = n THEN R(last) ELSE R(10)]

History(n, last, gap) ==
    [kind |-> "ok", meta |-> NoMeta,
     quote |-> [open |-> <<>>, high |-> <<>>, low |-> <<>>,
                close |-> Closes(n, last, gap), volume |-> <<>>],
     timestamp |-> <<>>]

HistoryResponses ==
    {Failure(k) : k \in FailureKinds} \cup
    { History(30, 10, 0),      \* 30 prices
      History(50, 10, 7),      \* 50 entries, one null: 49 prices
      History(50, 10, 0),      \* exactly 50 prices, EMA 10
      History(52, 11, 7) }     \* 52 entries, one null: 51 prices, EMA 10 + 2/51

(***************************************************************************)
(* A completion of a function body: it returned value, or it threw.        *)
(***************************************************************************)
Return(v) == [threw |-> FALSE, value |-> v]
Throw     == [threw |-> TRUE, value |-> Null]

\* try { body } catch (error) { console.error(...); return onError }
TryCatch(body, onError) == IF body.threw THEN Return(onError) ELSE body

(***************************************************************************)
(* fetchStockFromYahoo(symbol), given the provider's answer                *)
(***************************************************************************)
\* exchange: symbol.includes('.BO') ? 'BSE' : 'NSE'
Exchange(symbol) == IF Includes(symbol, <<".", "BO">>) THEN <<"BSE">> ELSE <<"NSE">>

\* the object literal returned for the entry at lastIndex
LatestBar(symbol, resp, lastIndex) ==
    [symbol   |-> symbol,
     name     |-> OrElse(OrElse(resp.meta.longName, resp.meta.shortName), symbol),
     exchange |-> Exchange(symbol),
     open     |-> OrZero(ArrayGet(resp.quote.open, lastIndex)),
     high     |-> OrZero(ArrayGet(resp.quote.high, lastIndex)),
     low      |-> OrZero(ArrayGet(resp.quote.low, lastIndex)),
     close    |-> OrZero(ArrayGet(resp.quote.close, lastIndex)),
     volume   |-> OrZero(ArrayGet(resp.quote.volume, lastIndex)),
     date     |-> IsoDate(ArrayGet(resp.timestamp, lastIndex) \div (24 * 60 * 60))]

FetchStockBody(symbol, resp) ==
    CASE resp.kind = "networkError" -> Throw
      [] resp.kind = "httpError"    -> Return(Null)
      [] resp.kind = "invalidJson"  -> Throw
      [] resp.kind = "noResult"     -> Throw
      [] resp.kind = "emptyResult"  -> Return(Null)
      [] resp.kind = "noQuote"      -> Return(Null)
      [] OTHER ->
            LET lastIndex == Len(resp.quote.close) - 1
            IN  IF ~HasIndex(resp.timestamp, lastIndex)
                THEN Throw   \* toISOString() of an invalid date: RangeError
                ELSE Return(Obj(LatestBar(symbol, resp, lastIndex)))

\* mutant: no try/catch around the body
FetchStockNoCatch(symbol, resp) == FetchStockBody(symbol, resp)

fetchStockFromYahoo(symbol, resp) == TryCatch(FetchStockBody(symbol, resp), Null)

(***************************************************************************)
(* fetchHistoricalPrices(symbol, days), given the provider's answer        *)
(***************************************************************************)
\* .filter((price) => price !== null)
NotNull(price) == price # Null

FetchHistoryBody(resp) ==
    CASE resp.kind = "networkError" -> Throw
      [] resp.kind = "httpError"    -> Return(<<>>)
      [] resp.kind = "invalidJson"  -> Throw
      [] resp.kind = "noResult"     -> Throw
      [] resp.kind = "emptyResult"  -> Return(<<>>)
      [] resp.kind = "noQuote"      -> Return(<<>>)
      [] OTHER -> Return(SelectSeq(resp.quote.close, NotNull))

fetchHistoricalPrices(resp) == TryCatch(FetchHistoryBody(resp), <<>>)

(***************************************************************************)
(* fetchStockDataTool.execute: one iteration's analysis                    *)
(***************************************************************************)
\* mutant: the lower bound loosened to <=
QualifiesLoose(low, close, ema50) == ~RGt(low, ema50) /\ RGt(close, ema50)

\* const qualifies = stockData.low < currentEMA50 && stockData.close > currentEMA50
Qualifies(low, close, ema50) == RLt(low, ema50) /\ RGt(close, ema50)

\* { ...stockData, ema50: currentEMA50, qualifies }
Analyse(bar, historicalPrices) ==
    LET ema50 == CurrentEMA(calculateEMA(historicalPrices, EmaPeriod))
    IN  [symbol |-> bar.symbol, name |-> bar.name, exchange |-> bar.exchange,
         open |-> bar.open, high |-> bar.high, low |-> bar.low, close |-> bar.close,
         volume |-> bar.volume, date |-> bar.date,
         ema50 |-> ema50, qualifies |-> Qualifies(bar.low, bar.close, ema50)]

\* mutant: a history of exactly 50 prices is skipped too
InsufficientHistoryOffByOne(historicalPrices) == Len(historicalPrices) <= MinHistoryLength

\* if (historicalPrices.length < 50) ... continue
InsufficientHistory(historicalPrices) == Len(historicalPrices) < MinHistoryLength

\* mutant: the record goes to the front of the array
PushFront(array, record) == <<record>> \o array

\* stocksWithEMA.push(record)
Push(array, record) == Append(array, record)

IsQualifying(stock) == stock.qualifies

\* mutant: only the qualifying records are returned
ReportQualifyingOnly(stocks) ==
    [totalStocks      |-> Len(stocks),
     qualifyingStocks |-> Len(SelectSeq(stocks, IsQualifying)),
     stocks           |-> SelectSeq(stocks, IsQualifying)]

\* the object returned after the loop
Report(stocks) ==
    [totalStocks      |-> Len(stocks),
     qualifyingStocks |-> Len(SelectSeq(stocks, IsQualifying)),
     stocks           |-> stocks]

(***************************************************************************)
(* The batch as a state machine.  execute is an async function: it is      *)
(* suspended at each await, and one action runs it from one await to the   *)
(* next.  The provider's response time is not counted (a provider may      *)
(* answer at once); the timer takes exactly its delay.                     *)
(***************************************************************************)
SymbolPool == {<<"TCS">>, <<"TCS", ".", "BO">>}

Init ==
    /\ symbols \in SeqsUpTo(SymbolPool, MaxSymbols)
    /\ idx = 1
    /\ pc = "fetchStock"
    /\ stockData = Null
    /\ stocksWithEMA = <<>>
    /\ processedCount = 0
    /\ report = Null
    /\ now = 0
    /\ calls = <<>>
    /\ csvOut = Null
    /\ emaIn = Null
    /\ emaOut = Null
    /\ startedAt = ScheduledStart
    /\ mail = Null
    /\ emailOut = Null
    /\ sendOut = Null

\* the last entry of the chart lacks one of open, high, low, close
LastEntryIncomplete(resp) ==
    /\ resp.kind = "ok"
    /\ \E column \in {resp.quote.open, resp.quote.high, resp.quote.low, resp.quote.close} :
         ArrayGet(column, Len(resp.quote.close) - 1) = Null

\* a provider call made for the symbol at position idx, at time now:
\*   call       which of the two fetches
\*   caught     the fetch threw and the function's catch handled it
\*   bar        fetchStockFromYahoo returned a bar
\*   incomplete the chart's last entry lacked an OHLC value
\*   prices     how many prices fetchHistoricalPrices returned
LogLatest(body, done, resp) ==
    Append(calls, [pos |-> idx, at |-> now, call |-> "latest",
                   caught |-> body.threw /\ ~done.threw,
                   bar |-> ~done.threw /\ done.value # Null,
                   incomplete |-> LastEntryIncomplete(resp), prices |-> 0])

LogHistory(body, done) ==
    Append(calls, [pos |-> idx, at |-> now, call |-> "history",
                   caught |-> body.threw /\ ~done.threw,
                   bar |-> FALSE, incomplete |-> FALSE,
                   prices |-> IF done.threw THEN 0 ELSE Len(done.value)])

\* const stockData = await fetchStockFromYahoo(symbol);
\* if (!stockData) continue;
FetchStock ==
    /\ pc = "fetchStock"
    /\ idx <= Len(symbols)
    /\ \E resp \in LatestBarResponses :
         LET body == FetchStockBody(symbols[idx], resp)
             done == fetchStockFromYahoo(symbols[idx], resp)
         IN  /\ calls' = LogLatest(body, done, resp)
             /\ IF done.threw
                THEN /\ pc' = "threw"
                     /\ UNCHANGED <<idx, stockData>>
                ELSE IF done.value = Null
                THEN /\ pc' = "fetchStock"
                     /\ idx' = idx + 1
                     /\ UNCHANGED stockData
                ELSE /\ pc' = "fetchHistory"
                     /\ stockData' = done.value
                     /\ UNCHANGED idx
    /\ UNCHANGED <<symbols, stocksWithEMA, processedCount, report, now, csvOut,
                   emaIn, emaOut,
                   startedAt, mail, emailOut, sendOut>>

\* const historicalPrices = await fetchHistoricalPrices(symbol, 100);
\* if (historicalPrices.length < 50) continue;
\* ... stocksWithEMA.push(...); processedCount++; await new Promise(setTimeout 200)
FetchHistory ==
    /\ pc = "fetchHistory"
    /\ \E resp \in HistoryResponses :
         LET body == FetchHistoryBody(resp)
             done == fetchHistoricalPrices(resp)
         IN  /\ calls' = LogHistory(body, done)
             /\ IF done.threw
                THEN /\ pc' = "threw"
                     /\ UNCHANGED <<idx, stockData, stocksWithEMA, processedCount>>
                ELSE IF InsufficientHistory(done.value)
                THEN /\ pc' = "fetchStock"
                     /\ idx' = idx + 1
                     /\ stockData' = Null
                     /\ UNCHANGED <<stocksWithEMA, processedCount>>
                ELSE /\ pc' = "delay"
                     /\ stocksWithEMA' = Push(stocksWithEMA,
                                              Analyse(The(stockData), done.value))
                     /\ processedCount' = processedCount + 1
                     /\ UNCHANGED <<idx, stockData>>
    /\ UNCHANGED <<symbols, report, now, csvOut, emaIn, emaOut,
                   startedAt, mail, emailOut, sendOut>>

\* the 200 ms timer fires and the loop goes on to the next symbol
RateLimitDelay ==
    /\ pc = "delay"
    /\ now' = now + RateLimitDelayMs
    /\ pc' = "fetchStock"
    /\ idx' = idx + 1
    /\ stockData' = Null
    /\ UNCHANGED <<symbols, stocksWithEMA, processedCount, report, calls, csvOut,
                   emaIn, emaOut,
                   startedAt, mail, emailOut, sendOut>>

\* the loop is over: return { totalStocks, qualifyingStocks, stocks }
ReturnReport ==
    /\ pc = "fetchStock"
    /\ idx > Len(symbols)
    /\ report' = Obj(Report(stocksWithEMA))
    /\ pc' = "done"
    /\ UNCHANGED <<symbols, idx, stockData, stocksWithEMA, processedCount, now,
                   calls, csvOut, emaIn, emaOut,
                   startedAt, mail, emailOut, sendOut>>

(***************************************************************************)
(* generateCSV(stocks) and generateStockCSVTool.execute                    *)
(***************************************************************************)
Comma   == <<",">>
Quote   == <<"\"">>
Newline == <<"\n">>

Headers ==
    << <<"Symbol">>, <<"Name">>, <<"Exchange">>, <<"Date">>, <<"Open">>, <<"High">>,
       <<"Low">>, <<"Close">>, <<"Volume">>, <<"50_EMA">>, <<"Low_vs_EMA">>,
       <<"Close_vs_EMA">>, <<"Qualifies">> >>

TwoDigits(n) == IF n < 10 THEN "0" \o ToString(n) ELSE ToString(n)

\* x.toFixed(2) of a number >= 0: rounded to the nearest hundredth
ToFixed2(x) ==
    IF ~IsNum(x) THEN <<"NaN">>
    ELSE LET hundredths == (2 * 100 * x[1] + x[2]) \div (2 * x[2])
         IN  <<ToString(hundredths \div 100), ".", TwoDigits(hundredths % 100)>>

\* x.toString() of a whole number
NumToString(x) == IF ~IsNum(x) THEN <<"NaN">> ELSE <<ToString(x[1] \div x[2])>>

\* the 13 fields of one data row
RowFields(stock) ==
    << stock.symbol,
       Quote \o stock.name \o Quote,
       stock.exchange,
       stock.date,
       ToFixed2(stock.open),
       ToFixed2(stock.high),
       ToFixed2(stock.low),
       ToFixed2(stock.close),
       NumToString(stock.volume),
       ToFixed2(stock.ema50),
       IF RLt(stock.low, stock.ema50) THEN <<"Below">> ELSE <<"Above">>,
       IF RGt(stock.close, stock.ema50) THEN <<"Above">> ELSE <<"Below">>,
       IF stock.qualifies THEN <<"YES">> ELSE <<"NO">> >>

\* mutant: no filter, every record gets a row
FilterNothing(stocks) == stocks

\* const qualifyingStocks = stocks.filter(stock => stock.qualifies)
FilterQualifying(stocks) == SelectSeq(stocks, IsQualifying)

\* qualifyingStocks.forEach(stock => csvRows.push(row.join(',')))
RECURSIVE PushRows(_, _)
PushRows(csvRows, stocks) ==
    IF stocks = <<>> THEN csvRows
    ELSE PushRows(Append(csvRows, Join(RowFields(Head(stocks)), Comma)), Tail(stocks))

\* mutant: nothing at all, not even the header, when no record qualifies
GenerateCSVNothingWhenEmpty(stocks) ==
    IF FilterQualifying(stocks) = <<>> THEN <<>>
    ELSE Join(PushRows(<< Join(Headers, Comma) >>, FilterQualifying(stocks)), Newline)

generateCSV(stocks) ==
    LET csvRows == << Join(Headers, Comma) >>
    IN  Join(PushRows(csvRows, FilterQualifying(stocks)), Newline)

\* `${filename}_${timestamp}.csv`
FinalFilename(filename, timestamp) == filename \o <<"_">> \o timestamp \o <<".", "csv">>

DefaultFilename == <<"indian_stocks_50ema_analysis">>

\* new Date(): the wall clock when `elapsed` ms have passed since `start`
DateAfter(start, elapsed) ==
    LET ms == start.ms + elapsed
    IN  [day |-> start.day + ms \div (24 * 60 * 60 * 1000),
         ms  |-> ms % (24 * 60 * 60 * 1000)]

ThreeDigits(n) ==
    IF n < 10 THEN "00" \o ToString(n)
    ELSE IF n < 100 THEN "0" \o ToString(n) ELSE ToString(n)

\* the HH:MM:SS.mmm of toISOString
TimeOfDay(ms) ==
    TwoDigits(ms \div (60 * 60 * 1000)) \o ":" \o
    TwoDigits((ms \div (60 * 1000)) % 60) \o ":" \o
    TwoDigits((ms \div 1000) % 60) \o "." \o ThreeDigits(ms % 1000)

\* date.toISOString(): YYYY-MM-DDTHH:MM:SS.mmmZ
ToISOString(date) == IsoDate(date.day) \o <<"T", TimeOfDay(date.ms), "Z">>

\* mutant: the whole ISO string, time of day included
DatePartNoSplit(iso) == iso

\* iso.split('T')[0]
DatePart(iso) == SplitOn(iso, "T")[1]

\* generateStockCSVTool.execute({ stocks, filename }) when the clock reads date
GenerateStockCSVExecute(stocks, filename, date) ==
    [csvContent      |-> generateCSV(stocks),
     filename        |-> FinalFilename(filename, DatePart(ToISOString(date))),
     qualifyingCount |-> Len(SelectSeq(stocks, IsQualifying)),
     totalStocks     |-> Len(stocks)]

\* the recipient the workflow input defaults to
RecipientEmail == <<"sanskarkabra1306@gmail.com">>

\* what fetchStockDataStep.execute returns, given the tool's result
FetchStepOutput(recipientEmail, result) ==
    [recipientEmail   |-> recipientEmail,
     totalStocks      |-> result.totalStocks,
     qualifyingStocks |-> result.qualifyingStocks,
     stocks           |-> result.stocks]

\* createWorkflow(...).then(a).then(b): the engine runs a step of the chain
\* once, when the step before it has returned, with that step's output as
\* its input
StepReady(inputData, output) == inputData # Null /\ output = Null

\* mutant: the step returns the base name, not the tool's filename
CsvStepOutputBaseName(inputData, result) ==
    [recipientEmail   |-> inputData.recipientEmail,
     totalStocks      |-> inputData.totalStocks,
     qualifyingStocks |-> inputData.qualifyingStocks,
     csvContent       |-> result.csvContent,
     filename         |-> <<"indian_stocks_50ema_analysis">>]

\* what generateCSVStep.execute returns, given its input and the tool's result
CsvStepOutput(inputData, result) ==
    [recipientEmail   |-> inputData.recipientEmail,
     totalStocks      |-> inputData.totalStocks,
     qualifyingStocks |-> inputData.qualifyingStocks,
     csvContent       |-> result.csvContent,
     filename         |-> result.filename]

\* the generate-csv step: the tool applied to the stocks the fetch step returned
GenerateStockCSV ==
    /\ StepReady(report, csvOut)
    /\ LET inputData == FetchStepOutput(RecipientEmail, The(report))
       IN  csvOut' = Obj(GenerateStockCSVExecute(inputData.stocks, DefaultFilename,
                                                 DateAfter(startedAt, now)))
    /\ UNCHANGED <<symbols, idx, pc, stockData, stocksWithEMA, processedCount,
                   report, now, calls, emaIn, emaOut,
                   startedAt, mail, emailOut, sendOut>>

(***************************************************************************)
(* sendStockEmailTool.execute and the send-email step.  sendEmail is the   *)
(* mail transport: it resolves with a message id and the accepted and      *)
(* rejected addresses, or it rejects with an Error or with another value.  *)
(***************************************************************************)
SendEmailOutcomes ==
    { [kind |-> "sent", messageId |-> <<"<1@replit.mail>">>,
       accepted |-> <<RecipientEmail>>, rejected |-> <<>>, message |-> <<>>],
      [kind |-> "sent", messageId |-> <<"<2@replit.mail>">>,
       accepted |-> <<>>, rejected |-> <<RecipientEmail>>, message |-> <<>>],
      [kind |-> "error", messageId |-> <<>>,
       accepted |-> <<>>, rejected |-> <<>>, message |-> <<"Failed to send email">>],
      [kind |-> "thrownValue", messageId |-> <<>>,
       accepted |-> <<>>, rejected |-> <<>>, message |-> <<>>] }

\* Buffer.from(text).toString('base64'): an encoding that can be undone and
\* differs from the text
Base64(text) == <<"base64:">> \o text

\* the values the text template interpolates, with the labels before them
\* (the html template interpolates the same four)
TextContent(totalStocks, qualifyingCount, analysisDate, filename) ==
    <<"Indian Stock Analysis Report - ">> \o analysisDate \o
    <<"- Total Stocks Analyzed: ", ToString(totalStocks),
      "- Qualifying Stocks: ", ToString(qualifyingCount),
      "- Analysis Date: ">> \o analysisDate \o
    <<"The detailed analysis is attached as a CSV file: ">> \o filename

\* const emailMessage: SmtpMessage = { to, subject, html, text, attachments }
\* (the pictograph that opens the subject is left out)
EmailMessage(context) ==
    [to      |-> context.recipientEmail,
     subject |-> <<"Indian Stock Analysis Report - ", ToString(context.qualifyingCount),
                   " Qualifying Stocks (">> \o context.analysisDate \o <<")">>,
     text    |-> TextContent(context.totalStocks, context.qualifyingCount,
                             context.analysisDate, context.filename),
     attachments |-> << [filename    |-> context.filename,
                         content     |-> Base64(context.csvContent),
                         contentType |-> "text/csv",
                         encoding    |-> "base64"] >>]

\* the try block: await sendEmail(emailMessage) and the success object
SendStockEmailBody(context, outcome) ==
    IF outcome.kind = "sent"
    THEN Return([success   |-> TRUE,
                 messageId |-> outcome.messageId,
                 accepted  |-> outcome.accepted,
                 rejected  |-> outcome.rejected,
                 error     |-> Hole])
    ELSE Throw

\* error instanceof Error ? error.message : 'Unknown error occurred'
ErrorMessage(outcome) ==
    IF outcome.kind = "error" THEN outcome.message ELSE <<"Unknown error occurred">>

\* mutant: no catch around the delivery
SendStockEmailNoCatch(context, outcome) == SendStockEmailBody(context, outcome)

\* sendStockEmailTool.execute({ context }) when sendEmail ends as outcome says
SendStockEmailExecute(context, outcome) ==
    TryCatch(SendStockEmailBody(context, outcome),
             [success   |-> FALSE,
              messageId |-> Hole,
              accepted  |-> <<>>,
              rejected  |-> <<context.recipientEmail>>,
              error     |-> ErrorMessage(outcome)])

\* mutant: the step hands over the count the other way round
SendContextSwapped(inputData, analysisDate) ==
    [recipientEmail  |-> inputData.recipientEmail,
     csvContent      |-> inputData.csvContent,
     filename        |-> inputData.filename,
     qualifyingCount |-> inputData.totalStocks,
     totalStocks     |-> inputData.qualifyingStocks,
     analysisDate    |-> analysisDate]

\* the context sendEmailStep.execute builds from its input
SendContext(inputData, analysisDate) ==
    [recipientEmail  |-> inputData.recipientEmail,
     csvContent      |-> inputData.csvContent,
     filename        |-> inputData.filename,
     qualifyingCount |-> inputData.qualifyingStocks,
     totalStocks     |-> inputData.totalStocks,
     analysisDate    |-> analysisDate]

\* what sendEmailStep.execute returns, given the tool's result
SendStepOutput(result) ==
    [success   |-> result.success,
     messageId |-> result.messageId,
     emailSent |-> result.success]

\* the send-email step: the tool is called with what the generate-csv step
\* returned, the message goes to the transport, and the step returns
SendStockEmail ==
    /\ StepReady(csvOut, mail)
    /\ \E outcome \in SendEmailOutcomes :
       \E context \in {SendContext(CsvStepOutput(FetchStepOutput(RecipientEmail,
                                                                The(report)),
                                                The(csvOut)),
                                  DatePart(ToISOString(DateAfter(startedAt, now))))} :
         LET done == SendStockEmailExecute(context, outcome)
         IN  /\ mail' = Obj([message |-> EmailMessage(context), outcome |-> outcome])
             /\ IF done.threw
                THEN /\ pc' = "threw"
                     /\ UNCHANGED <<emailOut, sendOut>>
                ELSE /\ emailOut' = Obj(done.value)
                     /\ sendOut' = Obj(SendStepOutput(done.value))
                     /\ UNCHANGED pc
    /\ UNCHANGED <<symbols, idx, stockData, stocksWithEMA, processedCount,
                   report, now, calls, csvOut, emaIn, emaOut, startedAt>>

Next ==
    \/ FetchStock
    \/ FetchHistory
    \/ RateLimitDelay
    \/ ReturnReport
    \/ GenerateStockCSV
    \/ SendStockEmail

Spec == Init /\ [][Next]_vars

(***************************************************************************)
(* generateCSV on its own: any list of records, also records whose         *)
(* qualifies flag does not follow from their numbers.                      *)
(***************************************************************************)
RecordPool ==
    { [symbol |-> <<"TCS">>, name |-> nm, exchange |-> <<"NSE">>,
       open |-> R(10), high |-> R(12), low |-> lo, close |-> R(11),
       volume |-> R(1000), date |-> <<"2025-09-10">>,
       ema50 |-> <<512, 51>>, qualifies |-> q]
      : nm \in {<<"Tata Consultancy">>, <<"Tata", ",", " Ltd">>,
                <<"Tata ", "\"", "A", "\"", ",", " Ltd">>},
        lo \in {R(9), R(11)},
        q \in BOOLEAN }

InitCSV ==
    /\ symbols = <<>>
    /\ idx = 1
    /\ pc = "done"
    /\ stockData = Null
    /\ stocksWithEMA = <<>>
    /\ processedCount = 0
    /\ \E stocks \in SeqsUpTo(RecordPool, MaxRecords) :
         report = Obj([totalStocks |-> 0, qualifyingStocks |-> 0, stocks |-> stocks])
    /\ now \in {0, RateLimitDelayMs}
    /\ calls = <<>>
    /\ csvOut = Null
    /\ emaIn = Null
    /\ emaOut = Null
    /\ startedAt \in StartInstants
    /\ mail = Null
    /\ emailOut = Null
    /\ sendOut = Null

NextCSV == GenerateStockCSV

SpecCSV == InitCSV /\ [][NextCSV]_vars

(***************************************************************************)
(* Properties.                                                             *)
(***************************************************************************)
\* the positions of the symbol list whose latest-bar fetch returned a bar and
\* whose history fetch returned at least 50 prices
AnalysedPositions ==
    {p \in 1..Len(symbols) :
        /\ \E k \in 1..Len(calls) :
             calls[k].pos = p /\ calls[k].call = "latest" /\ calls[k].bar
        /\ \E k \in 1..Len(calls) :
             calls[k].pos = p /\ calls[k].call = "history" /\ calls[k].prices >= 50}

\* a * d < c * b, that is a/b < c/d for two rationals
Below(x, y) == x[1] * y[2] < y[1] * x[2]

\* C1: every record the batch builds has qualifies = TRUE exactly when its low
\* is strictly below its ema50 and its close strictly above it; a record with
\* low = ema50 or close = ema50 does not qualify.
C1_QualifiesIffStrictlyAcross ==
    \A i \in 1..Len(stocksWithEMA) :
        LET s == stocksWithEMA[i]
        IN  /\ s.qualifies <=> (Below(s.low, s.ema50) /\ Below(s.ema50, s.close))
            /\ (s.low = s.ema50 \/ s.close = s.ema50) => ~s.qualifies

\* a finished batch with a record on the boundary next to one that qualifies
C1_Witness ==
    /\ pc = "done"
    /\ \E i, j \in 1..Len(stocksWithEMA) :
         /\ stocksWithEMA[i].low = stocksWithEMA[i].ema50
         /\ ~stocksWithEMA[i].qualifies
         /\ stocksWithEMA[j].qualifies

\* C2 as stated: the returned record sequence holds only qualifying records,
\* so qualifyingStocks is its length.
C2_OnlyQualifyingReturned ==
    report # Null =>
        /\ \A i \in 1..Len(The(report).stocks) : The(report).stocks[i].qualifies
        /\ The(report).qualifyingStocks = Len(The(report).stocks)

\* C2 amended: the returned record sequence holds every analysed record,
\* qualifying or not, each with its flag: totalStocks is its length and
\* qualifyingStocks the number of its records whose flag is TRUE.
C2_AllAnalysedReturned ==
    report # Null =>
        LET r == The(report)
        IN  /\ Len(r.stocks) = Cardinality(AnalysedPositions)
            /\ r.totalStocks = Len(r.stocks)
            /\ r.qualifyingStocks =
                 Cardinality({i \in 1..Len(r.stocks) : r.stocks[i].qualifies})

\* the spec's scenario: A qualifies, B is analysed with low = ema50; the
\* report is totalStocks = 2, qualifyingStocks = 1 and holds both records
C2_Witness ==
    /\ report # Null
    /\ The(report).totalStocks = 2
    /\ The(report).qualifyingStocks = 1
    /\ Len(The(report).stocks) = 2
    /\ The(report).stocks[1].qualifies
    /\ ~The(report).stocks[2].qualifies
    /\ The(report).stocks[2].low = The(report).stocks[2].ema50

\* C3: at the end of a batch totalStocks is the number of symbols whose fetch
\* returned a bar and whose history has at least 50 prices; no other symbol
\* has a record, and totalStocks >= qualifyingStocks.
C3_TotalCountsAnalysedSymbols ==
    pc = "done" =>
        /\ The(report).totalStocks = Cardinality(AnalysedPositions)
        /\ Len(stocksWithEMA) = Cardinality(AnalysedPositions)
        /\ processedCount = Cardinality(AnalysedPositions)
        /\ The(report).totalStocks >= The(report).qualifyingStocks

\* a finished batch of two symbols: one failed fetch or 30-price history, one
\* analysed symbol, totalStocks = 1
C3_Witness ==
    /\ pc = "done"
    /\ Len(symbols) = 2
    /\ \E k \in 1..Len(calls) : calls[k].call = "history" /\ calls[k].prices = 30
    /\ The(report).totalStocks = 1

\* the steps of the batch
BatchStep == FetchStock \/ FetchHistory \/ RateLimitDelay \/ ReturnReport

\* the awaits left before the report is returned, at most
Remaining ==
    IF pc = "done" THEN 0
    ELSE 1 + 3 * (Len(symbols) + 1 - idx)
           - (CASE pc = "fetchHistory" -> 1 [] pc = "delay" -> 2 [] OTHER -> 0)

\* C4: whatever the provider answers for each symbol, no exception leaves
\* execute; until the report is returned the batch can always take a step and
\* every step brings the return closer, so every batch ends by returning a
\* report; and by then the provider has been called for every symbol.
C4_FailuresNeverAbortBatch ==
    /\ [](pc # "threw")
    /\ [](pc # "done" => (Remaining > 0 /\ ENABLED BatchStep))
    /\ [][pc # "done" => Remaining' < Remaining]_vars
    /\ [](pc = "done" =>
            /\ report # Null
            /\ \A p \in 1..Len(symbols) :
                 \E k \in 1..Len(calls) : calls[k].pos = p /\ calls[k].call = "latest")

\* a finished batch in which a fetch threw and a later symbol was analysed
C4_Witness ==
    /\ pc = "done"
    /\ \E k \in 1..Len(calls) :
         /\ calls[k].caught
         /\ \E p \in AnalysedPositions : p > calls[k].pos

\* C5 as stated: a symbol whose latest chart entry lacks an open, high, low or
\* close value is skipped: no bar is returned for it, it is not counted in
\* totalStocks and it has no qualifying record.
C5_IncompleteLatestBarIsSkipped ==
    pc = "done" =>
        LET incompletePositions ==
                {calls[k].pos : k \in {j \in 1..Len(calls) : calls[j].incomplete}}
        IN  /\ The(report).totalStocks =
                  Cardinality(AnalysedPositions \ incompletePositions)
            /\ The(report).qualifyingStocks <=
                  Cardinality(AnalysedPositions \ incompletePositions)

\* the elements of a finite set of numbers in ascending order
RECURSIVE Ascending(_)
Ascending(S) ==
    IF S = {} THEN <<>>
    ELSE LET least == CHOOSE x \in S : \A y \in S : x <= y
         IN  <<least>> \o Ascending(S \ {least})

\* the data rows of a CSV text: its lines after the first
DataRows(text) == Tail(SplitOn(text, "\n"))

\* the first field of a CSV line
FirstField(line) == SplitOn(line, ",")[1]

\* C6: the records of the report are those of the analysed symbols in the
\* order of the symbol list, and the data rows of the CSV built from them are
\* those of the qualifying ones, again in the order of the symbol list.
C6_RecordsAndRowsKeepInputOrder ==
    LET analysed == Ascending(AnalysedPositions)
    IN  /\ report # Null =>
             /\ Len(The(report).stocks) = Len(analysed)
             /\ \A k \in 1..Len(analysed) :
                  The(report).stocks[k].symbol = symbols[analysed[k]]
        /\ csvOut # Null =>
             LET qualifying ==
                     Ascending({analysed[k] : k \in {j \in 1..Len(analysed) :
                                                  The(report).stocks[j].qualifies}})
                 rows == DataRows(The(csvOut).csvContent)
             IN  /\ Len(rows) = Len(qualifying)
                 /\ \A k \in 1..Len(rows) : FirstField(rows[k]) = symbols[qualifying[k]]

\* a CSV of two data rows for two different symbols
C6_Witness ==
    /\ csvOut # Null
    /\ Len(DataRows(The(csvOut).csvContent)) = 2
    /\ symbols[1] # symbols[2]
    /\ The(report).stocks[1].symbol = symbols[1]

\* C7 as stated: between the provider calls for one symbol and those for the
\* next, the 200 ms delay has elapsed, also after a skipped symbol.
C7_DelayBetweenSymbols ==
    \A k \in 1..(Len(calls) - 1) :
        calls[k + 1].pos # calls[k].pos => calls[k + 1].at - calls[k].at >= 200

\* C8: for a price series at least as long as the period, calculateEMA returns
\* an array of the length of the series whose entries at the indices
\* 0..period-2 are holes and whose entries from index period-1 on are numbers.
C8_EmaSeriesShape ==
    (emaOut # Null /\ Len(The(emaIn).prices) >= The(emaIn).period) =>
        LET ema    == The(emaOut).emaValues
            period == The(emaIn).period
        IN  /\ Len(ema) = Len(The(emaIn).prices)
            /\ \A i \in 0..(Len(ema) - 1) :
                 IF i <= period - 2 THEN ema[i + 1] = Hole ELSE IsNum(ema[i + 1])

\* a series longer than a period of at least 2 has been processed
C8_Witness ==
    /\ emaOut # Null
    /\ The(emaIn).period >= 2
    /\ Len(The(emaIn).prices) > The(emaIn).period
    /\ The(emaOut).emaValues[1] = Hole

\* the sum of the first n numbers of a sequence of rationals, as one rational
\* over the product of the denominators
RECURSIVE SumFirst(_, _)
SumFirst(prices, n) ==
    IF n = 0 THEN <<0, 1>>
    ELSE LET rest == SumFirst(prices, n - 1)
         IN  <<rest[1] * prices[n][2] + prices[n][1] * rest[2], rest[2] * prices[n][2]>>

\* x = y for two rationals that need not be in lowest terms
SameRational(x, y) == x[1] * y[2] = y[1] * x[2]

\* C9: the entry at index period-1 is the mean of the first min(period,
\* length) prices, every later entry is
\* (price[i] - ema[i-1]) * 2/(period+1) + ema[i-1], the current EMA is the
\* last entry, and with exactly period prices it is their mean.
C9_EmaSeedAndRecurrence ==
    (emaOut # Null /\ Len(The(emaIn).prices) >= 1) =>
        LET ema    == The(emaOut).emaValues
            prices == The(emaIn).prices
            period == The(emaIn).period
            n      == IF period < Len(prices) THEN period ELSE Len(prices)
            sum    == SumFirst(prices, n)
            mean   == <<sum[1], sum[2] * n>>
        IN  /\ SameRational(ema[period], mean)
            /\ \A i \in period..(Len(prices) - 1) :
                 \* ema[i] * (period + 1) = 2 * price[i] + (period - 1) * ema[i-1]
                 LET price == prices[i + 1]
                     prev  == ema[i]
                 IN  SameRational(
                         <<ema[i + 1][1] * (period + 1), ema[i + 1][2]>>,
                         <<2 * price[1] * prev[2] + (period - 1) * prev[1] * price[2],
                           price[2] * prev[2]>>)
            /\ The(emaOut).currentEMA = ema[Len(ema)]
            /\ Len(prices) = period => SameRational(The(emaOut).currentEMA, mean)

\* a series two longer than its period: the recurrence has run twice
C9_Witness ==
    /\ emaOut # Null
    /\ Len(The(emaIn).prices) = The(emaIn).period + 2
    /\ The(emaOut).currentEMA # The(emaOut).emaValues[The(emaIn).period]

\* the header line, chunk by chunk
HeaderLine ==
    << "Symbol", ",", "Name", ",", "Exchange", ",", "Date", ",", "Open", ",", "High",
       ",", "Low", ",", "Close", ",", "Volume", ",", "50_EMA", ",", "Low_vs_EMA", ",",
       "Close_vs_EMA", ",", "Qualifies" >>

\* the last field of a CSV line
LastField(line) == LET fields == SplitOn(line, ",") IN fields[Len(fields)]

RECURSIVE ParseCSVLine(_, _)
ParseCSVLine(line, st) ==
    IF st.i > Len(line) THEN Append(st.fields, st.field)
    ELSE LET c == line[st.i]
         IN  IF st.inQuotes /\ c = "\"" /\ st.i < Len(line) /\ line[st.i + 1] = "\""
             THEN ParseCSVLine(line, [st EXCEPT !.i = @ + 2, !.field = Append(@, c)])
             ELSE IF c = "\""
             THEN ParseCSVLine(line, [st EXCEPT !.i = @ + 1, !.inQuotes = ~@])
             ELSE IF c = "," /\ ~st.inQuotes
             THEN ParseCSVLine(line, [st EXCEPT !.i = @ + 1, !.field = <<>>,
                                                !.fields = Append(@, st.field)])
             ELSE ParseCSVLine(line, [st EXCEPT !.i = @ + 1, !.field = Append(@, c)])

ParsedFields(line) ==
    ParseCSVLine(line, [i |-> 1, inQuotes |-> FALSE, field |-> <<>>, fields |-> <<>>])

\* C11: reading the text of generateCSV back as CSV gives, for each record
\* with a data row, 13 fields that hold the record's symbol, name, exchange
\* and date unchanged, its numbers to two decimals, and its Below/Above and
\* YES/NO labels.
C11_CsvRoundTrip ==
    csvOut # Null =>
        LET written == SelectSeq(The(report).stocks, IsQualifying)
            rows    == DataRows(The(csvOut).csvContent)
        IN  /\ Len(rows) = Len(written)
            /\ \A k \in 1..Len(rows) :
                 LET field == ParsedFields(rows[k])
                     stock == written[k]
                 IN  /\ Len(field) = 13
                     /\ field[1] = stock.symbol
                     /\ field[2] = stock.name
                     /\ field[3] = stock.exchange
                     /\ field[4] = stock.date
                     /\ field[5] = ToFixed2(stock.open)
                     /\ field[6] = ToFixed2(stock.high)
                     /\ field[7] = ToFixed2(stock.low)
                     /\ field[8] = ToFixed2(stock.close)
                     /\ field[10] = ToFixed2(stock.ema50)
                     /\ field[11] = <<"Below">> <=> RLt(stock.low, stock.ema50)
                     /\ field[12] = <<"Above">> <=> RGt(stock.close, stock.ema50)
                     /\ field[13] = <<"YES">>

\* the UTC calendar day on the clock when `now` ms of the run have passed
DayOnClock ==
    IF startedAt.ms + now >= 24 * 60 * 60 * 1000 THEN startedAt.day + 1 ELSE startedAt.day

\* C13: the filename the tool returns is the base string, an underscore, the
\* UTC calendar date on the clock when the tool runs as YYYY-MM-DD, and .csv;
\* nothing else enters it, so runs of the tool on the same date with the same
\* base give the same filename whatever the time of day.
C13_FilenameIsBaseAndDate ==
    csvOut # Null =>
        The(csvOut).filename =
            <<"indian_stocks_50ema_analysis", "_">> \o IsoDate(DayOnClock) \o <<".", "csv">>

\* the tool ran on the scheduled day, 200 ms after the scheduled time, and
\* named the file after that day
C13_Witness ==
    /\ csvOut # Null
    /\ startedAt = ScheduledStart
    /\ now = RateLimitDelayMs
    /\ Includes(The(csvOut).filename, <<"_", "2025-09-10", ".">>)

\* the value that follows a label in the text of the message
ValueAfter(text, label) ==
    text[1 + CHOOSE i \in 1..Len(text) : text[i] = label]

\* no record of the finished batch qualifies
NoneQualifies ==
    /\ report # Null
    /\ \A i \in 1..Len(The(report).stocks) : ~The(report).stocks[i].qualifies

\* C12: when the batch ends with no qualifying record (also with no record
\* at all), nothing throws, the generate-csv step can run and gives the
\* header line alone, the send-email step can run after it, and the message
\* it hands to the transport reports 0 qualifying stocks and carries the
\* header-only CSV.
C12_ZeroQualifyingStillDelivers ==
    NoneQualifies =>
        /\ pc = "done"
        /\ csvOut = Null => ENABLED GenerateStockCSV
        /\ csvOut # Null => The(csvOut).csvContent = HeaderLine
        /\ (csvOut # Null /\ mail = Null) => ENABLED SendStockEmail
        /\ mail # Null =>
             LET message == The(mail).message
             IN  /\ ValueAfter(message.text, "- Qualifying Stocks: ") = "0"
                 /\ message.subject[2] = "0"
                 /\ message.attachments[1].content = Base64(HeaderLine)
                 /\ sendOut # Null

\* of two symbols one was skipped and one analysed without qualifying, and
\* the message went out
C12_Witness ==
    /\ NoneQualifies
    /\ Len(symbols) = 2
    /\ Len(The(report).stocks) = 1
    /\ mail # Null
    /\ sendOut # Null

\* every symbol was skipped and the message went out
C12_WitnessAllSkipped ==
    /\ NoneQualifies
    /\ Len(symbols) = 2
    /\ The(report).stocks = <<>>
    /\ mail # Null

\* every symbol of the list has been asked of the provider
BatchFinished ==
    /\ report # Null
    /\ idx = Len(symbols) + 1
    /\ \A pos \in 1..Len(symbols) :
         \E k \in 1..Len(calls) : calls[k].pos = pos /\ calls[k].call = "latest"

\* C14: the generate-csv step has run only when the whole batch is over and
\* the fetch step has returned, the send-email step has run only when
\* generate-csv has returned, and its attachment has the filename and (in
\* base64) the text generate-csv returned; what a step has returned, and the
\* message that went to the transport, never change afterwards, so no step
\* runs twice.
C14_StepsRunInOrderOnce ==
    /\ [](csvOut # Null => BatchFinished)
    /\ [](mail # Null =>
            /\ csvOut # Null
            /\ Len(The(mail).message.attachments) = 1
            /\ The(mail).message.attachments[1].filename = The(csvOut).filename
            /\ The(mail).message.attachments[1].content =
                   <<"base64:">> \o The(csvOut).csvContent)
    /\ [](sendOut # Null => mail # Null)
    /\ [][/\ report # Null => report' = report
          /\ csvOut # Null => csvOut' = csvOut
          /\ mail # Null => mail' = mail
          /\ sendOut # Null => sendOut' = sendOut /\ emailOut' = emailOut]_vars

\* a run over two symbols went through all three steps and attached a CSV
\* with a data row
C14_Witness ==
    /\ sendOut # Null
    /\ Len(symbols) = 2
    /\ Len(DataRows(The(csvOut).csvContent)) = 1
    /\ The(mail).message.attachments[1].filename = The(csvOut).filename

\* C15: however sendEmail ends, the tool returns and so does the step.  If
\* sendEmail threw, the tool's result has success FALSE, no accepted
\* address, the recipient as the one rejected address and an error message
\* (the Error's own message, if it was an Error), and the step reports
\* emailSent FALSE; if sendEmail returned, the result has success TRUE and
\* the transport's message id, accepted and rejected lists, and the step
\* reports emailSent TRUE with that message id.
C15_DeliveryFailureIsReported ==
    mail # Null =>
        /\ pc # "threw"
        /\ emailOut # Null
        /\ sendOut # Null
        /\ LET outcome == The(mail).outcome
               result  == The(emailOut)
               step    == The(sendOut)
           IN  IF outcome.kind = "sent"
               THEN /\ result.success
                    /\ result.messageId = outcome.messageId
                    /\ result.accepted = outcome.accepted
                    /\ result.rejected = outcome.rejected
                    /\ step.success /\ step.emailSent
                    /\ step.messageId = outcome.messageId
               ELSE /\ ~result.success
                    /\ result.accepted = <<>>
                    /\ result.rejected = << <<"sanskarkabra1306@gmail.com">> >>
                    /\ result.error # <<"undefined">> /\ result.error # <<>>
                    /\ outcome.kind = "error" => result.error = outcome.message
                    /\ ~step.success /\ ~step.emailSent

\* sendEmail threw an Error and the step reported emailSent FALSE
C15_Witness ==
    /\ mail # Null
    /\ The(mail).outcome.kind = "error"
    /\ sendOut # Null
    /\ ~The(sendOut).emailSent
    /\ The(emailOut).rejected = <<RecipientEmail>>

\* C16: the numbers in the message agree with its attachment and with the
\* fetch step: the qualifying count is the number of data rows of the
\* attached CSV and the fetch step's qualifyingStocks, and the total is the
\* number of records the fetch step returned, which are the records the CSV
\* was built from.
C16_SummaryAgreesWithAttachment ==
    mail # Null =>
        LET message  == The(mail).message
            attached == Tail(message.attachments[1].content)
        IN  /\ ValueAfter(message.text, "- Qualifying Stocks: ") =
                   ToString(Len(DataRows(attached)))
            /\ message.subject[2] = ToString(Len(DataRows(attached)))
            /\ ValueAfter(message.text, "- Qualifying Stocks: ") =
                   ToString(The(report).qualifyingStocks)
            /\ ValueAfter(message.text, "- Total Stocks Analyzed: ") =
                   ToString(Len(The(report).stocks))
            /\ attached = The(csvOut).csvContent
            /\ Len(DataRows(attached)) =
                   Cardinality({i \in 1..Len(The(report).stocks) :
                                   The(report).stocks[i].qualifies})

\* two records, one of them qualifying, and the message went out
C16_Witness ==
    /\ mail # Null
    /\ Len(The(report).stocks) = 2
    /\ Len(DataRows(The(csvOut).csvContent)) = 1
    /\ ValueAfter(The(mail).message.text, "- Total Stocks Analyzed: ") = "2"

====
